---- MODULE Spec2Model ----
(***************************************************************************)
(* A model of holoviews/interface/pandas.py: DataFrameView (select, the    *)
(* table behind a view) and DFrame (table, heatmap and the conversion      *)
(* method _export_dataview they share).                                    *)
(*                                                                         *)
(* A DataFrame is a record [columns, rows]; a row carries its index label  *)
(* and its cells, cells[c] being the entry of column c.  Python's None is  *)
(* the string "None".  A dict is a sequence of [key, val] entries in       *)
(* insertion order, an assignment to a key already present replacing its   *)
(* value in place.  A dict key is a record [shape, comps, tag]: a bare     *)
(* scalar x is ("scalar", <<x>>), a tuple t is ("tuple", t) and a string s *)
(* is ("str", <<>>, s), so that 7 and (7,) are different keys, as they are *)
(* in Python.                                                              *)
(***************************************************************************)
EXTENDS Integers, Sequences, FiniteSets, TLC

VARIABLES frames, views, last, out

vars == <<frames, views, last, out>>

(* ------------------------------ bounds --------------------------------- *)

MaxRows == 3
MaxViewRows == 3
MaxViews == 2

(* --------------------------- value domains ----------------------------- *)

IndexLabels == {0, 1}
AVals == {7, 8}
SeasonVals == {1, 2}
ValueVals == {1, 3}

None == "None"

\* The dimension labels of the views of the model, in column order.
dimension_labels == <<"a", "season", "value">>

Cells == [a : AVals, season : SeasonVals, value : ValueVals]

Rows == [idx : IndexLabels, cells : Cells]

Range(s) == {s[i] : i \in 1..Len(s)}

SeqsUpTo(S, n) == UNION {[1..k -> S] : k \in 0..n}

DataFrame(rows) == [columns |-> dimension_labels, rows |-> rows]

\* list.index: the first position of x in s (x is in s).
IndexOf(s, x) == CHOOSE i \in 1..Len(s) : s[i] = x /\ \A j \in 1..(i-1) : s[j] # x

\* list(df.index)
IndexList(df) == [i \in 1..Len(df.rows) |-> df.rows[i].idx]

\* df.values: the rows as positional tuples, in column order.
Values(df) ==
    [i \in 1..Len(df.rows) |->
        [j \in 1..Len(df.columns) |-> df.rows[i].cells[df.columns[j]]]]

\* df.filter(items): the columns named in items, in the order of items.
FilterColumns(df, items) ==
    [df EXCEPT !.columns = SelectSeq(items, LAMBDA c : c \in Range(df.columns))]

(* ------------------------------ keys ----------------------------------- *)

TupleKey(t) == [shape |-> "tuple", comps |-> t, tag |-> ""]
ScalarKey(x) == [shape |-> "scalar", comps |-> <<x>>, tag |-> ""]
StrKey(s) == [shape |-> "str", comps |-> <<>>, tag |-> s]

\* dict[key] = val
DictSet(d, key, val) ==
    IF \E i \in 1..Len(d) : d[i].key = key
    THEN [i \in 1..Len(d) |-> IF d[i].key = key THEN [key |-> key, val |-> val] ELSE d[i]]
    ELSE Append(d, [key |-> key, val |-> val])

DictKeys(d) == {d[i].key : i \in 1..Len(d)}

\* dict[key] (key is in the dict)
DictGet(d, key) == d[CHOOSE i \in 1..Len(d) : d[i].key = key].val

(* ----------------------------- groupby --------------------------------- *)

\* The group key of a row: the tuple of its values in the grouping columns.
GroupKey(row, dims) == [j \in 1..Len(dims) |-> row.cells[dims[j]]]

\* The order of tuples of equal length, which is the order groupby sorts in.
LexLess(s, t) ==
    \E i \in 1..Len(s) : s[i] < t[i] /\ \A j \in 1..(i-1) : s[j] = t[j]

RECURSIVE SortKeys(_)
SortKeys(S) ==
    IF S = {} THEN <<>>
    ELSE LET m == CHOOSE x \in S : \A y \in S \ {x} : LexLess(x, y)
         IN  <<m>> \o SortKeys(S \ {m})

\* df.groupby(dims), iterated: one (key, group) pair per distinct combination
\* of values, in sorted key order, each group holding its rows in row order.
GroupBy(df, dims) ==
    LET keys == SortKeys({GroupKey(df.rows[i], dims) : i \in 1..Len(df.rows)})
    IN  [g \in 1..Len(keys) |->
            [key |-> keys[g],
             group |-> [df EXCEPT !.rows =
                          SelectSeq(@, LAMBDA r : GroupKey(r, dims) = keys[g])]]]

\* group.loc[ind, col]: the entries of column col in the rows labelled ind, in
\* row order.  One entry is the scalar pandas returns, several are the Series
\* it returns for a repeated label, and none raises KeyError.
Loc(df, ind, col) ==
    LET hit == SelectSeq(df.rows, LAMBDA r : r.idx = ind)
    IN  [i \in 1..Len(hit) |-> hit[i].cells[col]]

(* --------------------------- reduce functions -------------------------- *)

ReduceFns == {"sum", "first"}

RECURSIVE Sum(_)
Sum(v) == IF v = <<>> THEN 0 ELSE v[1] + Sum(Tail(v))

\* reduce_fn(v): sum, or lambda v: v[0], on a non-empty list.
ApplyReduce(reduce_fn, v) == IF reduce_fn = "sum" THEN Sum(v) ELSE v[1]

(* ------------------------- DFrame view methods ------------------------- *)

\* DFrame._create_table and DFrame._create_heatmap.  ItemTable and HeatMap
\* are kept as the arguments they are built from; a Dimension object is
\* named by its label, and the label of the source view is the empty string.
CreateView(view_method, temp_dict, value_dim, dims) ==
    [type |-> IF view_method = "table" THEN "ItemTable" ELSE "HeatMap",
     data |-> temp_dict,
     value |-> value_dim,
     dimensions |-> dims,
     label |-> value_dim]

(* ------------------------ DFrame._export_dataview ----------------------- *)

\* ReduceKey with the collapse of a one-component key that select mode has.
ReduceKeyCollapsed(row, vdim_inds, view_dims, value_dim) ==
    IF view_dims # <<>>
    THEN (IF Len(vdim_inds) > 1
          THEN TupleKey([j \in 1..Len(vdim_inds) |-> row[vdim_inds[j]]])
          ELSE ScalarKey(row[vdim_inds[1]]))
    ELSE StrKey(value_dim)

\* The group key of one row in reduce mode.
ReduceKey(row, vdim_inds, view_dims, value_dim) ==
    IF view_dims # <<>>
    THEN TupleKey([j \in 1..Len(vdim_inds) |-> row[vdim_inds[j]]])
    ELSE StrKey(value_dim)

\* The loop over map_group.values: temp_dict[key].append(row[val_idx]).
RECURSIVE Collate(_, _, _, _, _, _, _)
Collate(values, i, val_idx, vdim_inds, view_dims, value_dim, temp) ==
    IF i > Len(values) THEN temp
    ELSE LET row == values[i]
             key == ReduceKey(row, vdim_inds, view_dims, value_dim)
             old == IF key \in DictKeys(temp) THEN DictGet(temp, key) ELSE <<>>
         IN  Collate(values, i + 1, val_idx, vdim_inds, view_dims, value_dim,
                     DictSet(temp, key, Append(old, row[val_idx])))

\* The reduce branch for one map group.
ReduceGroup(map_group, value_dim, view_dims, reduce_fn) ==
    LET cols == map_group.columns
        val_idx == IndexOf(cols, value_dim)
        vdim_inds == [j \in 1..Len(view_dims) |-> IndexOf(cols, view_dims[j])]
        temp == Collate(Values(map_group), 1, val_idx, vdim_inds, view_dims,
                        value_dim, <<>>)
    IN  [i \in 1..Len(temp) |->
            [key |-> temp[i].key, val |-> ApplyReduce(reduce_fn, temp[i].val)]]

\* The key of one entry in select mode.  k is the key of the view group and
\* indices the list the loop runs over.  The index labels of the model are
\* integers, and str.join raises TypeError on an integer.
SelectKey(k, ind, indices, view_dims, value_dim) ==
    IF view_dims # <<>>
    THEN LET key == IF Len(indices) # 1 THEN <<ind>> \o k ELSE k
         IN  [err |-> None,
              key |-> IF Len(key) > 1 THEN TupleKey(key) ELSE ScalarKey(key[1])]
    ELSE [err |-> "TypeError", key |-> StrKey(value_dim)]

\* The two nested loops of select mode, over the view groups and over the
\* indices: step p is view group ((p-1) \div n) + 1 and index ((p-1) % n) + 1.
RECURSIVE SelectEntries(_, _, _, _, _, _)
SelectEntries(view_groups, indices, view_dims, value_dim, p, temp) ==
    IF p > Len(view_groups) * Len(indices) THEN [err |-> None, dict |-> temp]
    ELSE LET n == Len(indices)
             vg == view_groups[((p - 1) \div n) + 1]
             ind == indices[((p - 1) % n) + 1]
             sk == SelectKey(vg.key, ind, indices, view_dims, value_dim)
             val == Loc(vg.group, ind, value_dim)
         IN  IF sk.err # None THEN [err |-> sk.err, dict |-> temp]
             ELSE IF val = <<>> THEN [err |-> "KeyError", dict |-> temp]
             ELSE SelectEntries(view_groups, indices, view_dims, value_dim, p + 1,
                                DictSet(temp, sk.key, val))

\* The indices the select branch goes on with.
EffectiveIndices(indices, map_group) ==
    IF Len(indices) # 1
    THEN (IF indices # <<>> THEN indices ELSE IndexList(map_group))
    ELSE indices

\* The view dimensions the select branch goes on with.
EffectiveViewDimensions(indices, view_dimensions, view_dims) ==
    IF Len(indices) # 1 THEN <<"Index">> \o view_dims ELSE view_dimensions

\* One iteration of the loop over map_dfs.  st carries the local variables
\* that live across iterations (indices, view_dimensions, vmap), the calls of
\* view_method made so far and, for every iteration entered, the indices it
\* ran over beside the index of its map group (iters).
ExportStep(st, map_key, map_group, view_method, value_dim, reduce_fn, view_dims) ==
    IF reduce_fn # None
    THEN LET temp_dict == ReduceGroup(map_group, value_dim, view_dims, reduce_fn)
             view == CreateView(view_method, temp_dict, value_dim, st.view_dimensions)
         IN  [st EXCEPT
                 !.vmap = DictSet(@, map_key, view),
                 !.calls = Append(@, [map_key |-> map_key,
                                      temp_dict |-> temp_dict,
                                      value_dim |-> value_dim,
                                      dims |-> st.view_dimensions]),
                 !.iters = Append(@, [map_key |-> map_key,
                                      indices |-> st.indices,
                                      group_index |-> IndexList(map_group)])]
    ELSE LET indices == EffectiveIndices(st.indices, map_group)
             view_dimensions ==
                 EffectiveViewDimensions(st.indices, st.view_dimensions, view_dims)
             view_groups == IF view_dims # <<>> THEN GroupBy(map_group, view_dims)
                            ELSE <<[key |-> <<>>, group |-> map_group]>>
             sel == SelectEntries(view_groups, indices, view_dims, value_dim, 1, <<>>)
             view == CreateView(view_method, sel.dict, value_dim, view_dimensions)
             entered == [st EXCEPT
                            !.indices = indices,
                            !.view_dimensions = view_dimensions,
                            !.iters = Append(@, [map_key |-> map_key,
                                                 indices |-> indices,
                                                 group_index |-> IndexList(map_group)])]
         IN  IF sel.err # None
             THEN [entered EXCEPT !.err = sel.err]
             ELSE [entered EXCEPT
                     !.vmap = DictSet(@, map_key, view),
                     !.calls = Append(@, [map_key |-> map_key,
                                          temp_dict |-> sel.dict,
                                          value_dim |-> value_dim,
                                          dims |-> view_dimensions])]

\* ExportLoop leaving the loop after its first iteration.
ExportLoopFirstOnly(map_dfs, i, st, view_method, value_dim, reduce_fn, view_dims) ==
    IF map_dfs = <<>> THEN st
    ELSE ExportStep(st, map_dfs[1].key, map_dfs[1].group,
                    view_method, value_dim, reduce_fn, view_dims)

\* for map_key, map_group in map_dfs: ...
RECURSIVE ExportLoop(_, _, _, _, _, _, _)
ExportLoop(map_dfs, i, st, view_method, value_dim, reduce_fn, view_dims) ==
    IF i > Len(map_dfs) \/ st.err # None THEN st
    ELSE ExportLoop(map_dfs, i + 1,
                    ExportStep(st, map_dfs[i].key, map_dfs[i].group,
                               view_method, value_dim, reduce_fn, view_dims),
                    view_method, value_dim, reduce_fn, view_dims)

\* The user error check: the names the exception raised carries.
MissingDimensions(selected_dims) ==
    LET bad == SelectSeq(selected_dims, LAMBDA d : d \notin Range(dimension_labels))
    IN  IF bad = <<>> THEN <<>> ELSE <<bad[1]>>

\* DFrame._export_dataview on a view whose table is data: the outcome of the
\* call, which is an exception (err) or the value returned (ret, with
\* wrapped telling a ViewMap from a single view), the calls of view_method
\* it made and the loop iterations it entered.
ExportDataview(data, value_dim, indices, reduce_fn, view_dims, map_dims, view_method) ==
    LET selected_dims == <<value_dim>> \o view_dims \o map_dims
        missing == MissingDimensions(selected_dims)
        filter_dims == Range(dimension_labels) \ Range(selected_dims)
        df == IF filter_dims # {} THEN FilterColumns(data, selected_dims) ELSE data
        map_dfs == IF map_dims # <<>> THEN GroupBy(df, map_dims)
                   ELSE <<[key |-> None, group |-> df]>>
        st0 == [indices |-> indices, view_dimensions |-> view_dims,
                vmap |-> <<>>, calls |-> <<>>, iters |-> <<>>, err |-> None]
        st == ExportLoop(map_dfs, 1, st0, view_method, value_dim, reduce_fn, view_dims)
    IN  IF missing # <<>>
        THEN [err |-> "NoDimension", names |-> missing, calls |-> <<>>,
              iters |-> <<>>, wrapped |-> FALSE, ret |-> <<>>]
        ELSE IF st.err # None
        THEN [err |-> st.err, names |-> <<>>, calls |-> st.calls,
              iters |-> st.iters, wrapped |-> FALSE, ret |-> <<>>]
        ELSE [err |-> None, names |-> <<>>, calls |-> st.calls,
              iters |-> st.iters, wrapped |-> map_dims # <<>>, ret |-> st.vmap]

\* DFrame.table
TableCall(data, value_dim, indices, reduce_fn, dims, map_dims) ==
    ExportDataview(data, value_dim, indices, reduce_fn, dims, map_dims, "table")

\* The index argument of heatmap: None, or an index label.
NoIndex == [none |-> TRUE, label |-> 0]
IndexArg(i) == [none |-> FALSE, label |-> i]

\* Python's truth value of the index argument: None and 0 are false.
Truthy(index) == ~index.none /\ index.label # 0

\* DFrame.heatmap
HeatmapCall(data, value_dim, dims, index, reduce_fn, map_dims) ==
    LET indices == IF Truthy(index) THEN <<index.label>> ELSE <<>>
    IN  IF 1 > Len(dims) /\ Len(dims) > 2
        THEN [err |-> "HeatMapDims", names |-> <<>>, calls |-> <<>>,
              iters |-> <<>>, wrapped |-> FALSE, ret |-> <<>>]
        ELSE ExportDataview(data, value_dim, indices, reduce_fn, dims, map_dims,
                            "heatmap")

(* ------------------------- DataFrameView.select ------------------------ *)

\* A criterion of select: a slice (start, stop) or a value k for a dimension.
Slice(dim, start, stop) == [dim |-> dim, kind |-> "slice", start |-> start, stop |-> stop]
Equal(dim, k) == [dim |-> dim, kind |-> "eq", start |-> k, stop |-> k]

\* Matches with the bounds of a slice included.
MatchesInclusive(row, c) ==
    IF c.kind = "slice"
    THEN c.start <= row.cells[c.dim] /\ row.cells[c.dim] <= c.stop
    ELSE row.cells[c.dim] = c.start

\* The mask of one criterion.
Matches(row, c) ==
    IF c.kind = "slice"
    THEN c.start < row.cells[c.dim] /\ row.cells[c.dim] < c.stop
    ELSE row.cells[c.dim] = c.start

\* for dim, k in select.items(): df = df[mask], df[mask] being a new frame of
\* the rows the mask keeps, in order.
RECURSIVE SelectFrame(_, _, _)
SelectFrame(df, select, i) ==
    IF i > Len(select) THEN df
    ELSE SelectFrame([df EXCEPT !.rows = SelectSeq(@, LAMBDA r : Matches(r, select[i]))],
                     select, i + 1)

(* ------------------------------- state --------------------------------- *)

\* frames is the heap of DataFrames, views the views made so far, each naming
\* the frame that is its data and the select call that made it; last is the
\* latest operation on a view and out the latest conversion call.

RowsOf(v) == frames[views[v].data].rows

NoCall == [op |-> "none"]

InitWith(tables) ==
    /\ \E rows \in tables : frames = <<DataFrame(rows)>>
    /\ views = <<[data |-> 1, parent |-> 0, select |-> <<>>]>>
    /\ last = [op |-> "init"]
    /\ out = NoCall

\* self.clone(df): a new view of the same type over a copy of df.
Clone(v, df, select) ==
    /\ frames' = Append(frames, df)
    /\ views' = Append(views, [data |-> Len(frames) + 1, parent |-> v, select |-> select])

\* Select handing back a view of the table of v itself when there is nothing
\* to select by, as __getitem__ hands back self for the empty key.
SelectOrSelf(v, select) ==
    /\ Len(views) < MaxViews
    /\ IF select = <<>>
       THEN /\ views' = Append(views, [data |-> views[v].data, parent |-> v,
                                       select |-> select])
            /\ UNCHANGED frames
       ELSE Clone(v, SelectFrame(frames[views[v].data], select, 1), select)
    /\ last' = [op |-> "select", view |-> v, select |-> select,
                result |-> Len(views) + 1, source_rows |-> RowsOf(v)]
    /\ UNCHANGED out

\* view.select(**select)
Select(v, select) ==
    /\ Len(views) < MaxViews
    /\ Clone(v, SelectFrame(frames[views[v].data], select, 1), select)
    /\ last' = [op |-> "select", view |-> v, select |-> select,
                result |-> Len(views) + 1, source_rows |-> RowsOf(v)]
    /\ UNCHANGED out

\* The holder of view v changes its table in place:
\* v.data.drop(v.data.index[0], inplace=True)
Mutate(v) ==
    /\ RowsOf(v) # <<>>
    /\ frames' = [frames EXCEPT ![views[v].data].rows = Tail(@)]
    /\ last' = [op |-> "mutate", view |-> v]
    /\ UNCHANGED <<views, out>>

\* view.table(value_dim, indices, reduce_fn, dims, map_dims)
Table(v, value_dim, indices, reduce_fn, dims, map_dims) ==
    /\ out' = [op |-> "table", value_dim |-> value_dim, indices |-> indices,
               index |-> NoIndex, reduce_fn |-> reduce_fn, dims |-> dims,
               map_dims |-> map_dims,
               res |-> TableCall(frames[views[v].data], value_dim, indices,
                                 reduce_fn, dims, map_dims)]
    /\ UNCHANGED <<frames, views, last>>

\* view.heatmap(value_dim, dims, index, reduce_fn, map_dims)
Heatmap(v, value_dim, dims, index, reduce_fn, map_dims) ==
    /\ out' = [op |-> "heatmap", value_dim |-> value_dim, indices |-> <<>>,
               index |-> index, reduce_fn |-> reduce_fn, dims |-> dims,
               map_dims |-> map_dims,
               res |-> HeatmapCall(frames[views[v].data], value_dim, dims, index,
                                   reduce_fn, map_dims)]
    /\ UNCHANGED <<frames, views, last>>

(* --------------------------- specifications ---------------------------- *)

\* The tables of at most n rows with the default index 0, 1, ..., and those
\* with any index labels.
RangeTables(n) ==
    UNION {{[i \in 1..k |-> [idx |-> i - 1, cells |-> c[i]]] : c \in [1..k -> Cells]} :
           k \in 0..n}

LabelledTables(n) == SeqsUpTo(Rows, n)

\* Conversions with a reduce_fn.
ReduceViewDims == {<<>>, <<"a">>, <<"a", "season">>}
ReduceMapDims == {<<>>, <<"season">>}
ReduceIndices == {<<>>}

InitReduce == InitWith(RangeTables(MaxRows))

NextReduce ==
    \E fn \in ReduceFns, indices \in ReduceIndices, dims \in ReduceViewDims,
       map_dims \in ReduceMapDims :
        Table(1, "value", indices, fn, dims, map_dims)

SpecReduce == InitReduce /\ [][NextReduce]_vars

\* Conversions without a reduce_fn, by table.
SelectIndices == {<<>>, <<0>>, <<1>>, <<0, 1>>}
SelectViewDims == {<<"a">>, <<"a", "season">>}
SelectMapDims == {<<>>, <<"season">>}

InitSelectMode == InitWith(LabelledTables(MaxRows))

NextSelectMode ==
    \E indices \in SelectIndices, dims \in SelectViewDims, map_dims \in SelectMapDims :
        Table(1, "value", indices, None, dims, map_dims)

SpecSelectMode == InitSelectMode /\ [][NextSelectMode]_vars

\* Conversions by heatmap.
HeatmapDims == {<<>>, <<"a">>, <<"a", "season">>, <<"a", "season", "value">>}
HeatmapIndex == {NoIndex} \cup {IndexArg(i) : i \in IndexLabels}
HeatmapReduceFns == {None, "sum"}

InitHeatmap == InitWith(RangeTables(MaxRows))

NextHeatmap ==
    \E dims \in HeatmapDims, index \in HeatmapIndex, fn \in HeatmapReduceFns,
       map_dims \in SelectMapDims :
        Heatmap(1, "value", dims, index, fn, map_dims)

SpecHeatmap == InitHeatmap /\ [][NextHeatmap]_vars

\* Conversions that name dimensions the view may not have.
NamedValueDims == {"value", "z"}
NamedViewDims == {<<"a">>, <<"w">>, <<"w", "a">>}
NamedMapDims == {<<>>, <<"v">>}

InitNames == InitWith(RangeTables(MaxRows))

NextNames ==
    \E value_dim \in NamedValueDims, dims \in NamedViewDims, map_dims \in NamedMapDims :
        \/ Table(1, value_dim, <<>>, "sum", dims, map_dims)
        \/ Heatmap(1, value_dim, dims, NoIndex, "sum", map_dims)

SpecNames == InitNames /\ [][NextNames]_vars

\* Views made by select, and their tables changed in place.
ViewTables(n) == {rows \in RangeTables(n) : \A i \in 1..Len(rows) : rows[i].cells.season = 1}

CriteriaA == {Equal("a", 7), Slice("a", 6, 8), Slice("a", 7, 9)}
CriteriaValue == {Equal("value", 3), Slice("value", 1, 4)}

SelectArgs ==
    {<<>>} \cup {<<c>> : c \in CriteriaA \cup CriteriaValue}
           \cup {<<c, d>> : c \in CriteriaA, d \in CriteriaValue}

InitView == InitWith(ViewTables(MaxViewRows))

NextView ==
    \/ \E v \in 1..Len(views), select \in SelectArgs : Select(v, select)
    \/ \E v \in 1..Len(views) : Mutate(v)

SpecView == InitView /\ [][NextView]_vars

(* ------------------------------- claims -------------------------------- *)

Source == frames[1].rows

\* The entries of column col in the rows of rows whose column dim is x, in
\* row order.
EntriesWhere(rows, dim, x, col) ==
    LET hit == SelectSeq(rows, LAMBDA r : r.cells[dim] = x)
    IN  [i \in 1..Len(hit) |-> hit[i].cells[col]]

ReduceOneDim ==
    /\ out.op = "table"
    /\ out.reduce_fn # None
    /\ Len(out.dims) = 1
    /\ out.map_dims = <<>>
    /\ out.res.err = None

\* The mapping handed to the one build call has one entry per distinct value
\* of the view dimension, keyed by MakeKey of that value, holding reduce_fn of
\* the value-column entries of the rows with that value, in row order.
ReducedMapping(MakeKey(_)) ==
    /\ Len(out.res.calls) = 1
    /\ LET d == out.res.calls[1].temp_dict
           dim == out.dims[1]
           xs == {Source[i].cells[dim] : i \in 1..Len(Source)}
       IN  /\ Len(d) = Cardinality(xs)
           /\ DictKeys(d) = {MakeKey(x) : x \in xs}
           /\ \A x \in xs :
                DictGet(d, MakeKey(x)) =
                    ApplyReduce(out.reduce_fn, EntriesWhere(Source, dim, x, out.value_dim))

\* C2 as stated: in reduce mode with one view dimension and no map
\* dimensions the mapping is keyed by the view-dimension value itself.
C2_KeyedByValue == ReduceOneDim => ReducedMapping(ScalarKey)

\* C2 amended: in reduce mode with one view dimension and no map dimensions
\* the mapping has one entry per distinct value x of the view dimension, keyed
\* by the 1-tuple (x,), holding reduce_fn of the value entries of the rows
\* with that value, in row order.
C2_KeyedByOneTuple == ReduceOneDim => ReducedMapping(LAMBDA x : TupleKey(<<x>>))

\* Three rows summed over "a", two of them sharing the first value of "a"
\* met and summing to 4, as the rows (7, 1), (7, 3), (8, 1) do.
C2_Witness ==
    /\ ReduceOneDim
    /\ out.reduce_fn = "sum"
    /\ out.dims = <<"a">>
    /\ Len(Source) = 3
    /\ Len(out.res.calls[1].temp_dict) = 2
    /\ out.res.calls[1].temp_dict[1].val = 4

ReduceMode ==
    /\ out.op = "table"
    /\ out.reduce_fn # None
    /\ out.res.err = None

\* The map-dimension value combinations present in the source rows.
MapCombos == {GroupKey(Source[i], out.map_dims) : i \in 1..Len(Source)}

\* The view the same call makes, with no map dimensions, of the rows that
\* have the map-dimension values key.
ViewOfCombo(key) ==
    LET rows == SelectSeq(Source, LAMBDA r : GroupKey(r, out.map_dims) = key)
    IN  TableCall(DataFrame(rows), out.value_dim, out.indices, out.reduce_fn,
                  out.dims, <<>>).ret[1].val

\* C7: in reduce mode with map dimensions the result is a keyed collection
\* whose keys are exactly the map-dimension value combinations of the source
\* rows, each holding the view that the projection without map dimensions
\* makes of the rows with that combination; without map dimensions the
\* result is the one view built, not a collection.
C7_MapWrapping ==
    ReduceMode =>
        IF out.map_dims # <<>>
        THEN /\ out.res.wrapped
             /\ Len(out.res.ret) = Cardinality(MapCombos)
             /\ DictKeys(out.res.ret) = MapCombos
             /\ \A key \in MapCombos : DictGet(out.res.ret, key) = ViewOfCombo(key)
        ELSE /\ ~out.res.wrapped
             /\ Len(out.res.calls) = 1
             /\ Len(out.res.ret) = 1
             /\ out.res.ret[1].val =
                    CreateView("table", out.res.calls[1].temp_dict, out.value_dim,
                               out.res.calls[1].dims)

\* Two seasons, and the view of season 2 differs from that of season 1.
C7_Witness ==
    /\ ReduceMode
    /\ out.map_dims = <<"season">>
    /\ out.dims = <<"a">>
    /\ Len(out.res.ret) = 2
    /\ out.res.ret[1].val # out.res.ret[2].val

SelectMode ==
    /\ out.op = "table"
    /\ out.reduce_fn = None
    /\ out.dims # <<>>
    /\ out.res.err = None

\* The rows of the map group a build call was made for.
GroupRows(call) ==
    IF out.map_dims = <<>> THEN Source
    ELSE SelectSeq(Source, LAMBDA r : GroupKey(r, out.map_dims) = call.map_key)

\* The rows a call selects: all of them when no index was supplied, else the
\* rows labelled by a supplied index.
Selected(rows) ==
    IF out.indices = <<>> THEN rows
    ELSE SelectSeq(rows, LAMBDA r : r.idx \in Range(out.indices))

\* The key C3 gives the entry of row r: the view-dimension values, a bare
\* scalar when there is one component, the index prepended unless exactly one
\* index was supplied.
C3_Key(r) ==
    LET vals == GroupKey(r, out.dims)
        comps == IF Len(out.indices) = 1 THEN vals ELSE <<r.idx>> \o vals
    IN  IF Len(comps) = 1 THEN ScalarKey(comps[1]) ELSE TupleKey(comps)

\* C3: in select mode with a view dimension, the entries of every mapping
\* are those of the selected rows, keyed by the view-dimension values alone
\* (a bare scalar for one component) when exactly one index was supplied and
\* by the index followed by the view-dimension values when the number of
\* supplied indices is not 1, each holding the value entry of its row.
C3_KeyShape ==
    SelectMode =>
        \A c \in 1..Len(out.res.calls) :
            LET call == out.res.calls[c]
                rows == Selected(GroupRows(call))
            IN  /\ DictKeys(call.temp_dict) = {C3_Key(rows[i]) : i \in 1..Len(rows)}
                /\ \A i \in 1..Len(rows) :
                     rows[i].cells[out.value_dim]
                         \in Range(DictGet(call.temp_dict, C3_Key(rows[i])))

\* C10: in select mode with a view dimension, every key of a mapping has as
\* many components as the dims list handed to the same build call has
\* entries, so that the list starts with "Index" exactly when the keys carry
\* an index.
C10_DimsMatchKeys ==
    SelectMode =>
        \A c \in 1..Len(out.res.calls) :
            LET call == out.res.calls[c]
            IN  \A e \in 1..Len(call.temp_dict) :
                    /\ Len(call.temp_dict[e].key.comps) = Len(call.dims)
                    /\ (call.dims[1] = "Index") <=>
                           (Len(call.temp_dict[e].key.comps) = Len(out.dims) + 1)

\* C8: in select mode with no index supplied and two or more map groups, each
\* iteration of the loop over the map groups runs over exactly the row
\* indices of its own group.
C8_IndicesOfOwnGroup ==
    (/\ out.op = "table"
     /\ out.reduce_fn = None
     /\ out.indices = <<>>
     /\ out.map_dims # <<>>
     /\ out.res.err # "NoDimension"
     /\ Cardinality(MapCombos) >= 2)
    => \A i \in 1..Len(out.res.iters) :
           Range(out.res.iters[i].indices) = Range(out.res.iters[i].group_index)

\* A row satisfies every criterion of a select: its value equals a scalar
\* criterion and lies strictly between the bounds of a range criterion.
Satisfies(r, select) ==
    \A i \in 1..Len(select) :
        LET x == r.cells[select[i].dim]
        IN  IF select[i].kind = "slice"
            THEN select[i].start < x /\ x < select[i].stop
            ELSE x = select[i].start

\* C1: the view select returns holds exactly the rows of the source that
\* satisfy all criteria together, a row whose value equals a bound of a range
\* being left out.
C1_SelectFilter ==
    last.op = "select" =>
        RowsOf(last.result) =
            SelectSeq(last.source_rows, LAMBDA r : Satisfies(r, last.select))

\* A select by a value and a range together that keeps one row of two, the
\* row left out having the value 1, the lower bound of the range.
C1_Witness ==
    /\ last.op = "select"
    /\ Len(last.select) = 2
    /\ last.select[2] = Slice("value", 1, 4)
    /\ Len(last.source_rows) = 2
    /\ Len(RowsOf(last.result)) = 1
    /\ \E i \in 1..2 : /\ Satisfies(last.source_rows[i], <<last.select[1]>>)
                       /\ last.source_rows[i].cells.value = 1

C4_HeatmapArity ==
    out.op = "heatmap" =>
        /\ Len(out.dims) \notin 1..2 =>
               /\ out.res.err = "HeatMapDims"
               /\ out.res.iters = <<>>
        /\ Len(out.dims) \in 1..2 => out.res.err # "HeatMapDims"

\* C9 as stated: heatmap without reduce_fn and with an index of the table
\* runs over that one index, hands the builder its dims with no "Index"
\* added, and makes keys with no index component, holding values of the rows
\* at that index only.
C9_SingleIndex ==
    (/\ out.op = "heatmap"
     /\ out.reduce_fn = None
     /\ Len(out.dims) \in 1..2
     /\ ~out.index.none
     /\ \E i \in 1..Len(Source) : Source[i].idx = out.index.label)
    => /\ \A i \in 1..Len(out.res.iters) :
            out.res.iters[i].indices = <<out.index.label>>
       /\ \A c \in 1..Len(out.res.calls) :
            /\ out.res.calls[c].dims = out.dims
            /\ \A e \in 1..Len(out.res.calls[c].temp_dict) :
                 /\ Len(out.res.calls[c].temp_dict[e].key.comps) = Len(out.dims)
                 /\ Range(out.res.calls[c].temp_dict[e].val) \subseteq
                        {Source[i].cells[out.value_dim] :
                            i \in {j \in 1..Len(Source) : Source[j].idx = out.index.label}}

\* The names among value_dim, the view dims and the map dims of the latest
\* call that are no dimension of the view.
Offending ==
    Range(<<out.value_dim>> \o out.dims \o out.map_dims) \ Range(dimension_labels)

\* C5 as stated: a conversion naming dimensions the view does not have fails
\* before any row is processed and before any build call, with an error
\* that lists every offending name.
C5_AllOffendingNames ==
    (out.op \in {"table", "heatmap"} /\ Offending # {}) =>
        /\ out.res.err = "NoDimension"
        /\ out.res.iters = <<>>
        /\ out.res.calls = <<>>
        /\ Range(out.res.names) = Offending

====
